---- MODULE Spec2Model ----
(***************************************************************************)
(* Model of neurofhir/temporal_builder.py: FHIRTemporalGraphBuilder.       *)
(*                                                                         *)
(* Strings are sequences of one-character strings, so that len, split,     *)
(* startswith, endswith and "in" are computed as Python computes them.     *)
(* The loops that thread the registry bind the result of each iteration    *)
(* by x \in {e}, so that an iteration is computed before the next starts.  *)
(* An instant is a pair <<day, second>>: days since 1970-01-01 (UTC) and   *)
(* seconds within that day.                                                *)
(***************************************************************************)
EXTENDS Integers, Sequences, FiniteSets, TLC

VARIABLES
    node_mapping,   \* self.node_mapping: type -> (id -> index)
    time_window,    \* self.time_window
    torch_available,\* module level: torch is not None (= torch_geometric_available)
    warned,         \* self._warned_about_torch
    warnings,       \* number of records the logger received from this builder
    inputs,         \* the lists of records the caller passes to build_snapshots
    gens,           \* the generator objects returned by build_snapshots, in call order
    printed         \* what the last call of summary wrote to standard output, and
                    \* the generator whose snapshots it was given (0: no call yet)

vars == <<node_mapping, time_window, torch_available, warned, warnings, inputs, gens,
          printed>>

----------------------------------------------------------------------------
(* Bounds *)

MaxRecs == 2        \* longest input list drawn from Records
MaxGens == 2        \* build_snapshots calls on one builder
MaxFields == 2      \* timestamp fields a generated record holds
MaxRefParts == 3    \* pieces a generated reference string is made of

----------------------------------------------------------------------------
(* Python str operations on sequences of characters *)

StartsWith(s, p) == Len(s) >= Len(p) /\ SubSeq(s, 1, Len(p)) = p

EndsWith(s, p) == Len(s) >= Len(p) /\ SubSeq(s, Len(s) - Len(p) + 1, Len(s)) = p

\* p in s
Contains(s, p) == \E i \in 1..(Len(s) - Len(p) + 1) : SubSeq(s, i, i + Len(p) - 1) = p

\* position of the last occurrence of the character c in s, 0 if none
LastPos(s, c) ==
    IF \E i \in 1..Len(s) : s[i] = c
    THEN CHOOSE i \in 1..Len(s) : s[i] = c /\ \A j \in (i+1)..Len(s) : s[j] # c
    ELSE 0

RECURSIVE Split(_, _)
\* s.split(c) for a one-character separator c
Split(s, c) ==
    IF LastPos(s, c) = 0 THEN <<s>>
    ELSE Append(Split(SubSeq(s, 1, LastPos(s, c) - 1), c),
                SubSeq(s, LastPos(s, c) + 1, Len(s)))

\* seq[-1] and seq[-2]
Last1(q) == q[Len(q)]
Last2(q) == q[Len(q) - 1]

----------------------------------------------------------------------------
(* String literals *)

S_Patient == <<"P","a","t","i","e","n","t">>
S_Encounter == <<"E","n","c","o","u","n","t","e","r">>
S_Practitioner == <<"P","r","a","c","t","i","t","i","o","n","e","r">>
S_Condition == <<"C","o","n","d","i","t","i","o","n">>
S_Observation == <<"O","b","s","e","r","v","a","t","i","o","n">>
S_MedicationRequest == <<"M","e","d","i","c","a","t","i","o","n","R","e","q","u","e","s","t">>
S_urn == <<"u","r","n",":">>

----------------------------------------------------------------------------
(* Values of a record's fields.  k: "absent" (no such key), "null" (None), *)
(* "str" (a string s), "num" (a non-zero number: truthy, not a string).   *)

Absent == [k |-> "absent", s |-> <<>>]
Null == [k |-> "null", s |-> <<>>]
Str(s) == [k |-> "str", s |-> s]
Num == [k |-> "num", s |-> <<>>]

\* dict.get(key): a missing key reads as None
Get(v) == IF v.k = "absent" THEN Null ELSE v

\* bool(v)
Truthy(v) == (v.k = "str" /\ v.s # <<>>) \/ v.k = "num"

----------------------------------------------------------------------------
(* datetime.datetime.fromisoformat on the forms YYYY-MM-DD,                *)
(* YYYY-MM-DD?HH:MM:SS and YYYY-MM-DD?HH:MM:SS(+|-)HH:MM                   *)

Digits == {"0","1","2","3","4","5","6","7","8","9"}

DigitVal(c) ==
    CASE c = "0" -> 0 [] c = "1" -> 1 [] c = "2" -> 2 [] c = "3" -> 3
      [] c = "4" -> 4 [] c = "5" -> 5 [] c = "6" -> 6 [] c = "7" -> 7
      [] c = "8" -> 8 [] c = "9" -> 9

AllDigits(s) == \A i \in 1..Len(s) : s[i] \in Digits

RECURSIVE ToInt(_)
ToInt(s) == IF s = <<>> THEN 0
            ELSE 10 * ToInt(SubSeq(s, 1, Len(s) - 1)) + DigitVal(s[Len(s)])

IsLeap(y) == (y % 4 = 0 /\ y % 100 # 0) \/ y % 400 = 0

DaysInMonth(y, m) ==
    IF m = 2 THEN (IF IsLeap(y) THEN 29 ELSE 28)
    ELSE IF m \in {4, 6, 9, 11} THEN 30 ELSE 31

\* days from 1970-01-01 to y-m-d in the proleptic Gregorian calendar
DaysFromCivil(y, m, d) ==
    LET yy == IF m <= 2 THEN y - 1 ELSE y
        era == yy \div 400
        yoe == yy - era * 400
        mp == (m + 9) % 12
        doy == (153 * mp + 2) \div 5 + d - 1
        doe == yoe * 365 + yoe \div 4 - yoe \div 100 + doy
    IN  era * 146097 + doe - 719468

MinDay == DaysFromCivil(1, 1, 1)        \* datetime.MINYEAR
MaxDay == DaysFromCivil(9999, 12, 31)   \* datetime.MAXYEAR

\* the date y-m-d: [ok, day]
DateOf(y, m, d) ==
    IF y >= 1 /\ m \in 1..12 /\ d >= 1 /\ d <= DaysInMonth(y, m)
    THEN [ok |-> TRUE, day |-> DaysFromCivil(y, m, d)]
    ELSE [ok |-> FALSE, day |-> 0]

\* YYYY-MM-DD: [ok, day]
ParseDate(s) ==
    IF Len(s) = 10 /\ s[5] = "-" /\ s[8] = "-"
       /\ AllDigits(SubSeq(s, 1, 4)) /\ AllDigits(SubSeq(s, 6, 7)) /\ AllDigits(SubSeq(s, 9, 10))
    THEN DateOf(ToInt(SubSeq(s, 1, 4)), ToInt(SubSeq(s, 6, 7)), ToInt(SubSeq(s, 9, 10)))
    ELSE [ok |-> FALSE, day |-> 0]

\* the time h:m:x: [ok, sec]
ClockOf(h, m, x) ==
    IF h <= 23 /\ m <= 59 /\ x <= 59
    THEN [ok |-> TRUE, sec |-> h * 3600 + m * 60 + x]
    ELSE [ok |-> FALSE, sec |-> 0]

\* HH:MM:SS: [ok, sec]
ParseClock(s) ==
    IF Len(s) = 8 /\ s[3] = ":" /\ s[6] = ":"
       /\ AllDigits(SubSeq(s, 1, 2)) /\ AllDigits(SubSeq(s, 4, 5)) /\ AllDigits(SubSeq(s, 7, 8))
    THEN ClockOf(ToInt(SubSeq(s, 1, 2)), ToInt(SubSeq(s, 4, 5)), ToInt(SubSeq(s, 7, 8)))
    ELSE [ok |-> FALSE, sec |-> 0]

\* the offset sign h:m east of UTC, in seconds: [ok, sec]
OffsetOf(sign, h, m) ==
    IF h <= 23 /\ m <= 59
    THEN [ok |-> TRUE, sec |-> IF sign = "-" THEN 0 - (h * 3600 + m * 60)
                                             ELSE h * 3600 + m * 60]
    ELSE [ok |-> FALSE, sec |-> 0]

\* (+|-)HH:MM: [ok, sec]
ParseOffset(s) ==
    IF Len(s) = 6 /\ s[1] \in {"+", "-"} /\ s[4] = ":"
       /\ AllDigits(SubSeq(s, 2, 3)) /\ AllDigits(SubSeq(s, 5, 6))
    THEN OffsetOf(s[1], ToInt(SubSeq(s, 2, 3)), ToInt(SubSeq(s, 5, 6)))
    ELSE [ok |-> FALSE, sec |-> 0]

\* s[a-1:b], empty when s is shorter than b
Part(s, a, b) == IF Len(s) >= b THEN SubSeq(s, a, b) ELSE <<>>

\* the parsed value of a string of length n with date d, time c, offset o
IsoOf(n, d, c, o) ==
    IF n = 10 /\ d.ok
    THEN [ok |-> TRUE, day |-> d.day, sec |-> 0, aware |-> FALSE, off |-> 0]
    ELSE IF n = 19 /\ d.ok /\ c.ok
    THEN [ok |-> TRUE, day |-> d.day, sec |-> c.sec, aware |-> FALSE, off |-> 0]
    ELSE IF n = 25 /\ d.ok /\ c.ok /\ o.ok
    THEN [ok |-> TRUE, day |-> d.day, sec |-> c.sec, aware |-> TRUE, off |-> o.sec]
    ELSE [ok |-> FALSE, day |-> 0, sec |-> 0, aware |-> FALSE, off |-> 0]

\* [ok, day, sec, aware, off]; ok = FALSE stands for ValueError
FromIsoFormat(s) ==
    IsoOf(Len(s), ParseDate(Part(s, 1, 10)), ParseClock(Part(s, 12, 19)),
          ParseOffset(Part(s, 20, 25)))

\* the UTC instant of local day and second x - offset: [ok, t]
UtcOf(day, x) ==
    IF day + (x \div 86400) < MinDay \/ day + (x \div 86400) > MaxDay
    THEN [ok |-> FALSE, t |-> <<0, 0>>]
    ELSE [ok |-> TRUE, t |-> <<day + (x \div 86400), x % 86400>>]

\* ts.replace(tzinfo=utc) for a naive value, ts.astimezone(utc) for an aware
\* one: [ok, t]; ok = FALSE stands for OverflowError (result outside
\* MINYEAR..MAXYEAR)
ToUtc(p) == UtcOf(p.day, p.sec - (IF p.aware THEN p.off ELSE 0))

----------------------------------------------------------------------------
(* Record Normalizer: the loop body of build_snapshots                     *)

\* the "or" chain with effectiveDateTime in front of recordedDate
TsOrder_swapped == <<"effectiveDateTime", "recordedDate", "issued", "authoredOn",
                     "period.start", "birthDate", "date">>

\* the candidate fields in the order of the "or" chain
TsOrder == <<"recordedDate", "effectiveDateTime", "issued", "authoredOn",
             "period.start", "birthDate", "date">>

\* res.get(name), and res.get("period", {}).get("start") for "period.start":
\* [ok, v]; ok = FALSE stands for AttributeError (.get on a non-mapping)
TsLookup(res, name) ==
    IF name = "period.start"
    THEN IF res.period.shape = "absent" THEN [ok |-> TRUE, v |-> Null]
         ELSE IF res.period.shape = "map" THEN [ok |-> TRUE, v |-> Get(res.period.start)]
         ELSE [ok |-> FALSE, v |-> Null]
    ELSE [ok |-> TRUE, v |-> Get(res[name])]

RECURSIVE TsScan(_, _)
\* a or b or ...: the first truthy operand from position i on, evaluated
\* left to right; the last operand when none is truthy
TsScan(res, i) ==
    LET x == TsLookup(res, TsOrder[i])
    IN  IF ~x.ok THEN x
        ELSE IF Truthy(x.v) \/ i = Len(TsOrder) THEN x
        ELSE TsScan(res, i + 1)

TsSelect(res) == TsScan(res, 1)

\* precision padding and the trailing "Z"
PadPrecision(s) ==
    LET a == IF Len(s) = 4 THEN s \o <<"-","0","1","-","0","1">> ELSE s
    IN  IF Len(a) = 7 THEN a \o <<"-","0","1">> ELSE a

ReplaceZ(s) ==
    IF EndsWith(s, <<"Z">>)
    THEN SubSeq(s, 1, Len(s) - 1) \o <<"+","0","0",":","0","0">>
    ELSE s

\* res.get(field, {}).get("reference"): [ok, v]
RefLookup(obj) ==
    IF obj.shape = "absent" THEN [ok |-> TRUE, v |-> Null]
    ELSE IF obj.shape = "map" THEN [ok |-> TRUE, v |-> Get(obj.reference)]
    ELSE [ok |-> FALSE, v |-> Null]

NoRow == [resourceType |-> <<>>, id |-> <<>>, timestamp |-> <<0, 0>>,
          subject_ref |-> Null, encounter_ref |-> Null, payload |-> <<>>]

Skip == [st |-> "skip", row |-> NoRow, exc |-> ""]
Raise(e) == [st |-> "raise", row |-> NoRow, exc |-> e]

\* the rest of the iteration for the instant u: the references are read
\* and the row is appended
MakeRow(res, u, sr, er) ==
    IF ~u.ok THEN Raise("OverflowError")
    ELSE IF ~sr.ok \/ ~er.ok THEN Raise("AttributeError")
    ELSE [st |-> "row", exc |-> "",
          row |-> [resourceType |-> res.resourceType,
                   id |-> res.id,
                   timestamp |-> u.t,
                   subject_ref |-> sr.v,
                   encounter_ref |-> er.v,
                   payload |-> <<res>>]]

\* the try block with a default instant in place of the "continue" of the
\* except clause
Located_keep(res, p) ==
    IF ~p.ok
    THEN MakeRow(res, [ok |-> TRUE, t |-> <<0, 0>>],
                 RefLookup(res.subject), RefLookup(res.encounter))
    ELSE MakeRow(res, ToUtc(p), RefLookup(res.subject), RefLookup(res.encounter))

\* the try block for the parsed value p
Located(res, p) ==
    IF ~p.ok THEN Skip
    ELSE MakeRow(res, ToUtc(p), RefLookup(res.subject), RefLookup(res.encounter))

\* the iteration for the selected value sel
Selected(res, sel) ==
    IF ~sel.ok THEN Raise("AttributeError")
    ELSE IF ~Truthy(sel.v) THEN Skip
    ELSE IF sel.v.k # "str" THEN Raise("TypeError")
    ELSE Located(res, FromIsoFormat(ReplaceZ(PadPrecision(sel.v.s))))

\* one iteration of the loop: st = "row" (appended to data_dicts), "skip"
\* (continue) or "raise" (an exception leaves build_snapshots)
Normalize(res) == Selected(res, TsSelect(res))

\* the for loop over fhir_resources: [ok, rows, exc].  The loop ends at
\* the first iteration that raises; otherwise data_dicts holds the rows of
\* the iterations that appended one, in input order.
ParseResources(recs) ==
    LET n == [i \in 1..Len(recs) |-> Normalize(recs[i])]
        raising == {i \in 1..Len(recs) : n[i].st = "raise"}
        isRow(x) == x.st = "row"
        kept == SelectSeq(n, isRow)
    IN  IF raising # {}
        THEN [ok |-> FALSE, rows |-> <<>>,
              exc |-> n[CHOOSE i \in raising : \A j \in raising : i <= j].exc]
        ELSE [ok |-> TRUE, rows |-> [j \in 1..Len(kept) |-> kept[j].row], exc |-> ""]

----------------------------------------------------------------------------
(* Window Partitioner                                                      *)

TLess(a, b) == a[1] < b[1] \/ (a[1] = b[1] /\ a[2] < b[2])

\* the frame without the sort
SortByTimestamp_none(q) == q

\* df.sort("timestamp"): row j goes behind the rows that are earlier and
\* behind the rows of the same timestamp that precede it in q.  (The sort
\* leaves the order of rows of equal timestamp open; in the inputs below
\* such rows are equal or of different types, so that their order neither
\* changes a window nor an index.)
SortByTimestamp(q) ==
    LET before(j) == {k \in 1..Len(q) :
                          \/ TLess(q[k].timestamp, q[j].timestamp)
                          \/ (q[k].timestamp = q[j].timestamp /\ k < j)}
    IN  [p \in 1..Len(q) |-> q[CHOOSE j \in 1..Len(q) : Cardinality(before(j)) = p - 1]]

\* seconds of one window for the duration strings the docstring names
Every(tw) == IF tw = "1h" THEN 3600 ELSE 86400

\* dt.truncate(time_window) of a UTC instant
Truncate(t, tw) == <<t[1], t[2] - (t[2] % Every(tw))>>

\* the distinct elements of a sequence in the order of first appearance
Distinct(q) ==
    LET firsts == {j \in 1..Len(q) : \A k \in 1..(j - 1) : q[k] # q[j]}
    IN  [p \in 1..Cardinality(firsts) |->
            q[CHOOSE j \in firsts : Cardinality({k \in firsts : k < j}) = p - 1]]

\* group_by on the timestamp itself, without dt.truncate
GroupByWindow_exact(q, tw) ==
    LET keys == Distinct([j \in 1..Len(q) |-> q[j].timestamp])
        rowsOf(k) == LET t(r) == r.timestamp = k IN SelectSeq(q, t)
    IN  [j \in 1..Len(keys) |-> [window_start |-> keys[j], rows |-> rowsOf(keys[j])]]

\* df.with_columns(truncate) and df.group_by("snapshot_idx",
\* maintain_order=True): one (key, rows) per distinct key, in the order
\* of first appearance, each with all the rows of that key in row order
GroupByWindow(q, tw) ==
    LET snapshot_idx == [j \in 1..Len(q) |-> Truncate(q[j].timestamp, tw)]
        keys == Distinct(snapshot_idx)
        rowsOf(k) == LET t(r) == Truncate(r.timestamp, tw) = k IN SelectSeq(q, t)
    IN  [j \in 1..Len(keys) |-> [window_start |-> keys[j], rows |-> rowsOf(keys[j])]]

----------------------------------------------------------------------------
(* Global Node Identity Registry                                           *)

EmptyMap == <<>>

\* _get_node_index without the "not in mapping" test: every lookup assigns
get_node_index_reassign(m, resource_type, resource_id) ==
    LET m1 == IF resource_type \notin DOMAIN m
              THEN m @@ (resource_type :> EmptyMap) ELSE m
        mapping == m1[resource_type]
        m2 == [m1 EXCEPT ![resource_type] =
                    (resource_id :> Cardinality(DOMAIN mapping)) @@ mapping]
    IN  [m |-> m2, idx |-> m2[resource_type][resource_id]]

\* _get_node_index numbering from one: len(mapping) + 1
get_node_index_onebased(m, resource_type, resource_id) ==
    LET m1 == IF resource_type \notin DOMAIN m
              THEN m @@ (resource_type :> EmptyMap) ELSE m
        mapping == m1[resource_type]
        m2 == IF resource_id \notin DOMAIN mapping
              THEN [m1 EXCEPT ![resource_type] =
                        mapping @@ (resource_id :> Cardinality(DOMAIN mapping) + 1)]
              ELSE m1
    IN  [m |-> m2, idx |-> m2[resource_type][resource_id]]

\* _get_node_index on the registry m: the registry afterwards and the
\* index returned
get_node_index(m, resource_type, resource_id) ==
    LET m1 == IF resource_type \notin DOMAIN m
              THEN m @@ (resource_type :> EmptyMap) ELSE m
        mapping == m1[resource_type]
        m2 == IF resource_id \notin DOMAIN mapping
              THEN [m1 EXCEPT ![resource_type] =
                        mapping @@ (resource_id :> Cardinality(DOMAIN mapping))]
              ELSE m1
    IN  [m |-> m2, idx |-> m2[resource_type][resource_id]]

----------------------------------------------------------------------------
(* Edge Resolver and Snapshot Assembler: _construct_hetero_data            *)

\* the reference fields taken in the other order
relation_configs_reversed == << <<"encounter", "occurs_in">>, <<"subject", "refers_to">> >>

\* lines 220-226: the reference fields and their relations, in the order the
\* loop takes them
relation_configs == << <<"subject", "refers_to">>, <<"encounter", "occurs_in">> >>

\* the tgt_type_hint lambda with the first segment: x.split("/")[0]
TgtTypeHint_first(x) ==
    IF Contains(x, <<"/">>) /\ ~StartsWith(x, S_urn)
    THEN Str(Split(x, "/")[1])
    ELSE Null

\* the lambda of the tgt_type_hint column: Null stands for None
TgtTypeHint(x) ==
    IF Contains(x, <<"/">>) /\ ~StartsWith(x, S_urn)
    THEN Str(Last2(Split(x, "/")))
    ELSE Null

\* the lambda of the tgt_id column
TgtId(x) ==
    IF Contains(x, S_urn) THEN Last1(Split(x, ":"))
    ELSE IF Contains(x, <<"/">>) THEN Last1(Split(x, "/"))
    ELSE x

InferredTargetType(ref_field) ==
    IF ref_field = "subject" THEN S_Patient
    ELSE IF ref_field = "encounter" THEN S_Encounter
    ELSE S_Practitioner

\* the tgt_type column
TgtType(x, ref_field) ==
    IF TgtTypeHint(x).k # "null" THEN TgtTypeHint(x).s ELSE InferredTargetType(ref_field)

\* the rows of edge_candidates for one reference field
EdgeCandidates(df, ref_field) ==
    LET col_name == ref_field \o "_ref"
        has(r) == r[col_name].k # "null"
        sel == SelectSeq(df, has)
    IN  [j \in 1..Len(sel) |->
            [src_type |-> sel[j].resourceType,
             src_id |-> sel[j].id,
             ref_str |-> sel[j][col_name].s,
             tgt_type |-> TgtType(sel[j][col_name].s, ref_field),
             tgt_id |-> TgtId(sel[j][col_name].s)]]

RECURSIVE RegisterOwn(_, _, _)
\* step 1, one partition: register the id of every row from i on
RegisterOwn(m, sub_df, i) ==
    IF i > Len(sub_df) THEN m
    ELSE CHOOSE out \in
            {RegisterOwn(a.m, sub_df, i + 1) :
                a \in {get_node_index(m, sub_df[i].resourceType, sub_df[i].id)}} : TRUE

\* the rows of one partition of df.partition_by("resourceType")
Partition(df, type) == LET ofType(r) == r.resourceType = type IN SelectSeq(df, ofType)

RECURSIVE RegisterPartitions(_, _, _, _)
\* step 1: df.partition_by("resourceType"), one partition after the other
RegisterPartitions(m, df, types, i) ==
    IF i > Len(types) THEN m
    ELSE CHOOSE out \in
            {RegisterPartitions(m1, df, types, i + 1) :
                m1 \in {RegisterOwn(m, Partition(df, types[i]), 1)}} : TRUE

RECURSIVE RegisterEdgeEnds(_, _, _)
\* the first loop over edge_candidates: register source and target
RegisterEdgeEnds(m, cand, i) ==
    IF i > Len(cand) THEN m
    ELSE CHOOSE out \in
            {RegisterEdgeEnds(b.m, cand, i + 1) :
                b \in {get_node_index(a.m, cand[i].tgt_type, cand[i].tgt_id) :
                a \in {get_node_index(m, cand[i].src_type, cand[i].src_id)}}} : TRUE

\* the second loop with the two appends exchanged
AppendEdge_swapped(edges, key, s, t) ==
    LET e1 == IF key \notin DOMAIN edges THEN edges @@ (key :> <<<<>>, <<>>>>) ELSE edges
    IN  [e1 EXCEPT ![key] = <<Append(@[1], t), Append(@[2], s)>>]

\* the second loop keeping one copy of a pair
AppendEdge_dedup(edges, key, s, t) ==
    LET e1 == IF key \notin DOMAIN edges THEN edges @@ (key :> <<<<>>, <<>>>>) ELSE edges
    IN  IF \E n \in 1..Len(e1[key][1]) : e1[key][1][n] = s /\ e1[key][2][n] = t
        THEN e1
        ELSE [e1 EXCEPT ![key] = <<Append(@[1], s), Append(@[2], t)>>]

\* edges_dict after one iteration of the second loop, for the indices s and t
AppendEdge(edges, key, s, t) ==
    LET e1 == IF key \notin DOMAIN edges THEN edges @@ (key :> <<<<>>, <<>>>>) ELSE edges
    IN  [e1 EXCEPT ![key] = <<Append(@[1], s), Append(@[2], t)>>]

\* one iteration of the second loop for the candidate c: [m, edges]
EdgeStep(m, edges, c, edge_rel) ==
    CHOOSE out \in
        {[m |-> ab[2].m,
          edges |-> AppendEdge(edges, <<c.src_type, edge_rel, c.tgt_type>>,
                               ab[1].idx, ab[2].idx)] :
            ab \in {<<a, get_node_index(a.m, c.tgt_type, c.tgt_id)>> :
            a \in {get_node_index(m, c.src_type, c.src_id)}}} : TRUE

RECURSIVE AppendEdges(_, _, _, _, _)
\* the second loop over edge_candidates: [m, edges]
AppendEdges(m, edges, cand, edge_rel, i) ==
    IF i > Len(cand) THEN [m |-> m, edges |-> edges]
    ELSE CHOOSE out \in
            {AppendEdges(r.m, r.edges, cand, edge_rel, i + 1) :
                r \in {EdgeStep(m, edges, cand[i], edge_rel)}} : TRUE

\* the lambdas never see a non-string reference
RefParseFails_never(df, ref_field) == FALSE

\* the lambdas of lines 263-264 are applied to a reference that is no
\* string: "/" in x raises, inside the try block and before the loops
RefParseFails(df, ref_field) ==
    \E j \in 1..Len(df) : df[j][ref_field \o "_ref"].k = "num"

RECURSIVE ProcessRelations(_, _, _, _)
\* step 3b: the loop over relation_configs from position i: [m, edges].
\* An exception inside the try block is caught: the loop goes on with the
\* next field.
ProcessRelations(m, edges, df, i) ==
    IF i > Len(relation_configs) THEN [m |-> m, edges |-> edges]
    ELSE CHOOSE out \in
            {IF Len(cand) = 0 \/ RefParseFails(df, relation_configs[i][1])
             THEN ProcessRelations(m, edges, df, i + 1)
             ELSE CHOOSE o2 \in
                    {ProcessRelations(r.m, r.edges, df, i + 1) :
                        r \in {AppendEdges(m1, edges, cand, relation_configs[i][2], 1) :
                        m1 \in {RegisterEdgeEnds(m, cand, 1)}}} : TRUE :
                cand \in {EdgeCandidates(df, relation_configs[i][1])}} : TRUE

\* num_nodes as the highest index of each type
NumNodes_maxindex(m) == [t \in DOMAIN m |-> Cardinality(DOMAIN m[t]) - 1]

\* "num_nodes": {k: len(v) for k, v in self.node_mapping.items()}
NumNodes(m) == [t \in DOMAIN m |-> Cardinality(DOMAIN m[t])]

\* the warning logged for every snapshot built without torch
WarnOnce_always(was_warned, torch) ==
    [logged |-> ~torch, warned |-> IF torch THEN was_warned ELSE TRUE]

\* lines 152-158: without torch the warning is logged unless
\* _warned_about_torch is set, and the flag is set
WarnOnce(was_warned, torch) ==
    [logged |-> ~torch /\ ~was_warned, warned |-> IF torch THEN was_warned ELSE TRUE]

\* _construct_hetero_data on registry m: the registry afterwards, whether
\* the warning was logged, and the object returned
construct_hetero_data(m, was_warned, torch, df, window_start) ==
    CHOOSE out \in
        {[m |-> r.m,
          logged |-> WarnOnce(was_warned, torch).logged,
          warned |-> WarnOnce(was_warned, torch).warned,
          snap |-> IF torch
                   THEN [repr |-> "HeteroData", timestamp |-> window_start,
                         num_nodes |-> EmptyMap, edge_index_dict |-> r.edges]
                   ELSE [repr |-> "dict", timestamp |-> window_start,
                         num_nodes |-> NumNodes(r.m), edge_index_dict |-> r.edges]] :
            r \in {ProcessRelations(m1, EmptyMap, df, 1) :
            m1 \in {RegisterPartitions(m, df,
                        Distinct([j \in 1..Len(df) |-> df[j].resourceType]), 1)}}} : TRUE

----------------------------------------------------------------------------
(* The builder and the generators build_snapshots returns                  *)

\* build_snapshots is a generator function: a call only creates the
\* generator object; its body runs when the generator is advanced.
\* windows and pos are the frame's group_by iterator (all groups, and how
\* many of them were taken); yielded is what the consumer has received.
NewGen(input) == [input |-> input, status |-> "created", windows |-> <<>>,
                  pos |-> 0, yielded |-> <<>>, exc |-> ""]

BuildSnapshots(input) ==
    /\ Len(gens) < MaxGens
    /\ gens' = Append(gens, NewGen(input))
    /\ UNCHANGED <<node_mapping, time_window, torch_available, warned, warnings, inputs,
                   printed>>

\* the body of build_snapshots up to the loop over the windows:
\* [ok, windows, exc]
Prepare(input, tw) ==
    LET parsed == ParseResources(input)
    IN  IF input = <<>> THEN [ok |-> TRUE, windows |-> <<>>, exc |-> ""]
        ELSE IF ~parsed.ok THEN [ok |-> FALSE, windows |-> <<>>, exc |-> parsed.exc]
        ELSE [ok |-> TRUE, exc |-> "",
              windows |-> GroupByWindow(SortByTimestamp(parsed.rows), tw)]

\* the generator g stops: it returns (exc = "") or an exception leaves it;
\* its frame is released
Finish(g, exc) ==
    /\ gens' = [gens EXCEPT ![g].status = IF exc = "" THEN "done" ELSE "raised",
                            ![g].windows = <<>>,
                            ![g].pos = 0,
                            ![g].exc = exc]
    /\ UNCHANGED <<node_mapping, warned, warnings>>

\* a generator that starts from an empty registry: node_mapping is reset
\* when the first window of a build is constructed
Yield_reset(g, windows, pos) ==
    \E r \in {construct_hetero_data(IF pos = 0 THEN EmptyMap ELSE node_mapping,
                                    warned, torch_available,
                                    windows[pos + 1].rows,
                                    windows[pos + 1].window_start)} :
        /\ node_mapping' = r.m
        /\ warned' = r.warned
        /\ warnings' = IF r.logged THEN warnings + 1 ELSE warnings
        /\ gens' = [gens EXCEPT ![g].status = "suspended",
                                ![g].windows = windows,
                                ![g].pos = pos + 1,
                                ![g].yielded = Append(@, r.snap)]

\* the generator g takes the next group of windows, constructs its
\* snapshot and suspends at the yield
Yield(g, windows, pos) ==
    \E r \in {construct_hetero_data(node_mapping, warned, torch_available,
                                    windows[pos + 1].rows,
                                    windows[pos + 1].window_start)} :
        /\ node_mapping' = r.m
        /\ warned' = r.warned
        /\ warnings' = IF r.logged THEN warnings + 1 ELSE warnings
        /\ gens' = [gens EXCEPT ![g].status = "suspended",
                                ![g].windows = windows,
                                ![g].pos = pos + 1,
                                ![g].yielded = Append(@, r.snap)]

\* next() on the generator g
Advance(g) ==
    /\ g \in 1..Len(gens)
    /\ gens[g].status \in {"created", "suspended"}
    /\ \E p \in {IF gens[g].status = "created"
                 THEN Prepare(gens[g].input, time_window)
                 ELSE [ok |-> TRUE, windows |-> gens[g].windows, exc |-> ""]} :
           IF ~p.ok THEN Finish(g, p.exc)
           ELSE IF gens[g].pos = Len(p.windows) THEN Finish(g, "")
           ELSE Yield(g, p.windows, gens[g].pos)
    /\ UNCHANGED <<time_window, torch_available, inputs, printed>>

\* snap.get(key, default) on a snapshot in the plain-mapping representation:
\* the mapping has the keys "timestamp", "num_nodes" and "edge_index_dict"
SnapGet(snap, key, default) ==
    IF key \in {"timestamp", "num_nodes", "edge_index_dict"} THEN snap[key]
    ELSE default

\* sum(nn.values())
SumValues(nn) ==
    LET RECURSIVE sum(_)
        sum(K) == IF K = {} THEN 0
                  ELSE LET k == CHOOSE x \in K : TRUE
                       IN  nn[k] + sum(K \ {k})
    IN  sum(DOMAIN nn)

\* the loop "for k, v in edges.items(): ne_val += len(v[0])"
SumSourceLists(edges) ==
    LET RECURSIVE sum(_)
        sum(K) == IF K = {} THEN 0
                  ELSE LET k == CHOOSE x \in K : TRUE
                       IN  Len(edges[k][1]) + sum(K \ {k})
    IN  sum(DOMAIN edges)

\* the line "Snapshot i: nn_val nodes, ne_val edges" of a snapshot in the
\* plain-mapping representation
SnapshotLine(snap) ==
    [nodes |-> SumValues(SnapGet(snap, "num_nodes", EmptyMap)),
     edges |-> SumSourceLists(SnapGet(snap, "edges", EmptyMap))]

\* the totals of the first n lines
RECURSIVE Total(_, _, _)
Total(lines, field, n) ==
    IF n = 0 THEN 0 ELSE lines[n][field] + Total(lines, field, n - 1)

\* what summary prints for a list of snapshots: one line per snapshot, the
\* number of snapshots, and the two averages as total over count (0 when
\* count is 0)
summary(snapshots) ==
    LET lines == [i \in 1..Len(snapshots) |-> SnapshotLine(snapshots[i])]
    IN  [lines |-> lines,
         count |-> Len(snapshots),
         total_nodes |-> Total(lines, "nodes", Len(snapshots)),
         total_edges |-> Total(lines, "edges", Len(snapshots))]

\* the caller passes the list of the snapshots it pulled from the consumed
\* generator g to summary, as the example does; the snapshots are plain
\* mappings (what num_nodes and num_edges of a HeteroData return is decided
\* by torch_geometric)
Summary(g) ==
    /\ g \in 1..Len(gens)
    /\ gens[g].status = "done"
    /\ ~torch_available
    /\ printed' = [of |-> g, out |-> summary(gens[g].yielded)]
    /\ UNCHANGED <<node_mapping, time_window, torch_available, warned, warnings,
                   inputs, gens>>

Next ==
    \/ \E input \in inputs : BuildSnapshots(input)
    \/ \E g \in 1..MaxGens : Advance(g)

----------------------------------------------------------------------------
(* Inputs                                                                  *)

NoObj == [shape |-> "absent", reference |-> Absent]
RefObj(s) == [shape |-> "map", reference |-> Str(s)]
\* a reference that is a number
NumRefObj == [shape |-> "map", reference |-> Num]
NoPeriod == [shape |-> "absent", start |-> Absent]

\* a record with a type and an id and none of the other fields
BaseRecord(type, id) ==
    [resourceType |-> type, id |-> id,
     recordedDate |-> Absent, effectiveDateTime |-> Absent, issued |-> Absent,
     authoredOn |-> Absent, birthDate |-> Absent, date |-> Absent,
     period |-> NoPeriod, subject |-> NoObj, encounter |-> NoObj]

SeqsUpTo(S, n) == UNION {[1..k -> S] : k \in 0..n}

T_day0_8h == <<"2","0","2","4","-","0","1","-","0","1","T","0","8",":","0","0",":","0","0","Z">>
T_day0_9h == <<"2","0","2","4","-","0","1","-","0","1","T","0","9",":","0","0",":","0","0","Z">>
T_day1_9h == <<"2","0","2","4","-","0","1","-","0","2","T","0","9",":","0","0",":","0","0","Z">>
T_now == <<"2","0","2","4","-","0","1","-","0","1","T","0","8",":","0","0",":","0","0">>
T_now_2d == <<"2","0","2","4","-","0","1","-","0","3","T","0","8",":","0","0",":","0","0">>
T_year == <<"2","0","2","4">>
T_badmonth == <<"2","0","2","4","-","1","3">>

Ref_Patient_p == S_Patient \o <<"/","p">>
Ref_Patient_x == S_Patient \o <<"/","x">>
Ref_urn_e == S_urn \o <<"u","u","i","d",":","e">>

\* the records of the builder's scenarios: a patient, conditions that
\* refer to patients and encounters, a birth year, and a record whose
\* timestamp does not parse
Records ==
    { [BaseRecord(S_Patient, <<"p">>) EXCEPT !.recordedDate = Str(T_day0_8h)],
      [BaseRecord(S_Condition, <<"c">>) EXCEPT !.recordedDate = Str(T_day0_9h),
                                               !.subject = RefObj(Ref_Patient_p)],
      [BaseRecord(S_Condition, <<"d">>) EXCEPT !.authoredOn = Str(T_day1_9h),
                                               !.subject = RefObj(<<"q">>),
                                               !.encounter = RefObj(Ref_urn_e)],
      [BaseRecord(S_Patient, <<"q">>) EXCEPT !.birthDate = Str(T_year)],
      [BaseRecord(S_Condition, <<"c">>) EXCEPT !.recordedDate = Str(T_badmonth),
                                               !.subject = RefObj(Ref_Patient_x)],
      [BaseRecord(S_Encounter, <<"x">>) EXCEPT !.subject = RefObj(Ref_Patient_x)] }

InitWith(calls, windows) ==
    /\ node_mapping = EmptyMap
    /\ time_window \in windows
    /\ torch_available \in BOOLEAN
    /\ warned = FALSE
    /\ warnings = 0
    /\ inputs \in calls
    /\ gens = <<>>
    /\ printed = [of |-> 0, out |-> summary(<<>>)]

\* the orders in which the elements of a list can be passed
Orders(l) == {[i \in 1..Len(l) |-> l[f[i]]] : f \in Permutations(1..Len(l))}

\* the list of examples/01_temporal_graph.py: a patient and a condition on
\* one day, a medication request on the next
patient_history ==
    << [BaseRecord(S_Patient, <<"p">>) EXCEPT !.recordedDate = Str(T_day0_8h)],
       [BaseRecord(S_Condition, <<"c">>) EXCEPT !.recordedDate = Str(T_day0_9h),
                                                !.subject = RefObj(Ref_Patient_p)],
       [BaseRecord(S_MedicationRequest, <<"m">>) EXCEPT !.authoredOn = Str(T_day1_9h),
                                                        !.subject = RefObj(Ref_Patient_p)] >>

\* the list of tests/verify_modules.py: now, now, now + 2 days, as naive
\* isoformat strings
resources ==
    << [BaseRecord(S_Patient, <<"p">>) EXCEPT !.recordedDate = Str(T_now)],
       [BaseRecord(S_Observation, <<"o","1">>) EXCEPT !.effectiveDateTime = Str(T_now)],
       [BaseRecord(S_Observation, <<"o","2">>) EXCEPT !.effectiveDateTime = Str(T_now_2d)] >>

Scenarios == Orders(patient_history) \cup Orders(resources)

\* every call passes the same list
Init == InitWith({{l} : l \in SeqsUpTo(Records, MaxRecs) \cup Scenarios}, {"1d", "1h"})

Spec == Init /\ [][Next]_vars

\* the builds of Spec, and summary called on the lists they produced
NextSummary ==
    \/ Next
    \/ \E g \in 1..MaxGens : Summary(g)

SpecSummary == Init /\ [][NextSummary]_vars

\* the records that are not dropped
BatchRecords ==
    {r \in Records : r.id \in {<<"p">>, <<"d">>, <<"q">>} \/ r.recordedDate = Str(T_day0_9h)}

Front(l) == SubSeq(l, 1, Len(l) - 1)

\* a call passes the records received so far: all of them, or all but the latest
InitBatch == InitWith({{l, Front(l)} : l \in SeqsUpTo(BatchRecords, MaxRecs)}, {"1d"})

SpecBatch == InitBatch /\ [][Next]_vars

\* a field that holds None, and one that holds a value that is no mapping
NullObj == [shape |-> "null", reference |-> Absent]
ScalarObj == [shape |-> "scalar", reference |-> Absent]
NullPeriod == [shape |-> "null", start |-> Absent]
ScalarPeriod == [shape |-> "scalar", start |-> Absent]
PeriodOf(v) == [shape |-> "map", start |-> v]

\* a date of its own for each position of the "or" chain: 2024-01-0i
T_good(i) == <<"2","0","2","4","-","0","1","-","0">>
                 \o <<CHOOSE c \in Digits : DigitVal(c) = i>>

\* an aware timestamp whose UTC instant is before year 1
T_overflow == <<"0","0","0","1","-","0","1","-","0","1","T","0","0",":","0","0",":","0","0",
                "+","0","1",":","0","0">>

\* the values a timestamp field is given: None, "", a date, no date
TsKinds == {"null", "empty", "good", "bad"}

TsValue(kind, i) ==
    CASE kind = "null" -> Null
      [] kind = "empty" -> Str(<<>>)
      [] kind = "good" -> Str(T_good(i))
      [] kind = "bad" -> Str(T_badmonth)

\* the value of position i of the "or" chain under the assignment a
Assigned(a, i) == IF i \in DOMAIN a THEN TsValue(a[i], i) ELSE Absent

\* a condition whose timestamp fields are those of the assignment a
WithFields(a) ==
    [BaseRecord(S_Condition, <<"c">>) EXCEPT
        !.recordedDate = Assigned(a, 1),
        !.effectiveDateTime = Assigned(a, 2),
        !.issued = Assigned(a, 3),
        !.authoredOn = Assigned(a, 4),
        !.period = IF 5 \in DOMAIN a THEN PeriodOf(Assigned(a, 5)) ELSE NoPeriod,
        !.birthDate = Assigned(a, 6),
        !.date = Assigned(a, 7)]

\* records with at most MaxFields timestamp fields
TsRecords ==
    {WithFields(a) :
        a \in UNION {[F -> TsKinds] :
                        F \in {G \in SUBSET (1..Len(TsOrder)) : Cardinality(G) <= MaxFields}}}

\* records whose period, subject and encounter are absent, None, no
\* mapping or a mapping, with a recordedDate that is absent, a date, a
\* number or an instant out of range
ShapeRecords ==
    {[BaseRecord(S_Condition, <<"c">>) EXCEPT
        !.recordedDate = d, !.period = p, !.subject = sj, !.encounter = e] :
        d \in {Absent, Str(T_good(1)), Num, Str(T_overflow)},
        p \in {NoPeriod, NullPeriod, ScalarPeriod, PeriodOf(Str(T_good(5)))},
        sj \in {NoObj, NullObj, ScalarObj, RefObj(Ref_Patient_p)},
        e \in {NoObj, NullObj}}

\* every call passes the same one-record list
InitNorm == InitWith({{<<r>>} : r \in TsRecords \cup ShapeRecords}, {"1d"})

SpecNorm == InitNorm /\ [][Next]_vars

RECURSIVE Concat(_)
Concat(q) == IF q = <<>> THEN <<>> ELSE Head(q) \o Concat(Tail(q))

\* reference strings of at most MaxRefParts pieces
RefPieces == {S_urn, <<"P","/">>, <<"a","/">>, <<"a">>, <<":">>}

RefStrings == {Concat(q) : q \in SeqsUpTo(RefPieces, MaxRefParts)}

\* a condition that refers to x as its subject and, or not, as its encounter
RefRecords ==
    {[BaseRecord(S_Condition, <<"c">>) EXCEPT
        !.recordedDate = Str(T_good(1)), !.subject = RefObj(x),
        !.encounter = IF e THEN RefObj(x) ELSE NoObj] :
        x \in RefStrings, e \in BOOLEAN}

InitRef == InitWith({{<<r>>} : r \in RefRecords}, {"1d"})

SpecRef == InitRef /\ [][Next]_vars

\* conditions whose subject reference is a number, with or without an
\* encounter reference, and a later condition without a subject
NumSubjectRecords ==
    { [BaseRecord(S_Condition, <<"c">>) EXCEPT !.recordedDate = Str(T_day0_8h),
                                               !.subject = NumRefObj,
                                               !.encounter = RefObj(Ref_urn_e)],
      [BaseRecord(S_Condition, <<"d">>) EXCEPT !.recordedDate = Str(T_day0_9h),
                                               !.subject = NumRefObj],
      [BaseRecord(S_Condition, <<"f">>) EXCEPT !.authoredOn = Str(T_day1_9h),
                                               !.encounter = RefObj(Ref_urn_e)] }

\* conditions whose encounter reference is a number, with a subject
NumEncounterRecords ==
    { [BaseRecord(S_Condition, <<"c">>) EXCEPT !.recordedDate = Str(T_day0_8h),
                                               !.subject = RefObj(Ref_Patient_p),
                                               !.encounter = NumRefObj],
      [BaseRecord(S_Condition, <<"d">>) EXCEPT !.recordedDate = Str(T_day0_9h),
                                               !.subject = RefObj(<<"q">>)],
      [BaseRecord(S_Condition, <<"f">>) EXCEPT !.authoredOn = Str(T_day1_9h),
                                               !.subject = RefObj(Ref_Patient_p)] }

\* every call passes the same list, in which the references of one field
\* are numbers
InitFail ==
    InitWith({{l} : l \in SeqsUpTo(NumSubjectRecords, MaxRecs)
                        \cup SeqsUpTo(NumEncounterRecords, MaxRecs)}, {"1d"})

SpecFail == InitFail /\ [][Next]_vars

\* records whose references name patients that have no earlier record: a
\* condition of patient x, a patient p an hour later, an observation at
\* midnight whose encounter field names patient y, a patient q the next day
Ref_Patient_y == S_Patient \o <<"/","y">>
OrderRecords ==
    { [BaseRecord(S_Condition, <<"c">>) EXCEPT !.recordedDate = Str(T_day0_8h),
                                               !.subject = RefObj(Ref_Patient_x)],
      [BaseRecord(S_Patient, <<"p">>) EXCEPT !.recordedDate = Str(T_day0_9h)],
      [BaseRecord(S_Observation, <<"o">>) EXCEPT !.effectiveDateTime = Str(T_year),
                                                 !.encounter = RefObj(Ref_Patient_y)],
      [BaseRecord(S_Patient, <<"q">>) EXCEPT !.recordedDate = Str(T_day1_9h)] }

InitOrder == InitWith({{l} : l \in SeqsUpTo(OrderRecords, MaxRecs)}, {"1d", "1h"})

SpecOrder == InitOrder /\ [][Next]_vars

----------------------------------------------------------------------------
(* Properties                                                              *)

\* the indices node_mapping holds for a type
Indices(m, t) == {m[t][i] : i \in DOMAIN m[t]}

\* C1: once a (resource_type, resource_id) pair has an index, no step of
\* the builder (a later window, a later build_snapshots call, any further
\* registration) removes the pair or changes its index, and a later lookup
\* of the pair returns that index and leaves node_mapping as it is.
C1_IndexStable ==
    [][\A t \in DOMAIN node_mapping : \A i \in DOMAIN node_mapping[t] :
          /\ t \in DOMAIN node_mapping'
          /\ i \in DOMAIN node_mapping'[t]
          /\ node_mapping'[t][i] = node_mapping[t][i]
          /\ get_node_index(node_mapping', t, i).idx = node_mapping[t][i]
          /\ get_node_index(node_mapping', t, i).m = node_mapping']_vars

\* two builds over different inputs are consumed, the later one over more
\* than one window, and a type has several ids
C1_Witness ==
    /\ Len(gens) = 2
    /\ gens[1].status = "done" /\ Len(gens[1].yielded) >= 1
    /\ gens[2].status = "done" /\ Len(gens[2].yielded) >= 2
    /\ gens[1].input # gens[2].input
    /\ \E t \in DOMAIN node_mapping : Cardinality(DOMAIN node_mapping[t]) >= 2

\* C2: in every reachable state, for every type the indices in
\* node_mapping[type] are exactly 0..k-1 for k the number of ids registered
\* for the type, and two ids of a type never share an index.
C2_IndexDense ==
    \A t \in DOMAIN node_mapping :
        /\ Indices(node_mapping, t) = 0..(Cardinality(DOMAIN node_mapping[t]) - 1)
        /\ \A i, j \in DOMAIN node_mapping[t] :
              node_mapping[t][i] = node_mapping[t][j] => i = j

\* a type holds two ids, one of them registered as the target of a reference
C2_Witness ==
    /\ S_Patient \in DOMAIN node_mapping
    /\ DOMAIN node_mapping[S_Patient] = {<<"p">>, <<"q">>}
    /\ \A g \in 1..Len(gens) : \A j \in 1..Len(gens[g].input) :
          gens[g].input[j].id # <<"q">>

\* the rows of the records of an input that have a resolvable timestamp
Resolvable(input) == ParseResources(input).rows

\* C3: for any input order of the records, the timestamps of the snapshots
\* one build_snapshots call has yielded are strictly increasing: a snapshot
\* yielded later has a strictly greater window start, so no window start
\* is yielded twice.
C3_StrictlyIncreasing ==
    \A g \in 1..Len(gens) : \A j, k \in 1..Len(gens[g].yielded) :
        j < k => TLess(gens[g].yielded[j].timestamp, gens[g].yielded[k].timestamp)

\* a build is consumed that yielded several snapshots from an input whose
\* records are not in chronological order
C3_Witness ==
    \E g \in 1..Len(gens) :
        /\ gens[g].status = "done"
        /\ Len(gens[g].yielded) >= 2
        /\ \E rows \in {Resolvable(gens[g].input)} :
              \E i \in 1..(Len(rows) - 1) : TLess(rows[i + 1].timestamp, rows[i].timestamp)

\* how often x occurs in the sequence q
Count(q, x) == Cardinality({j \in 1..Len(q) : q[j] = x})

\* the window starts of a sequence of rows
WindowStarts(rows, tw) == {Truncate(rows[j].timestamp, tw) : j \in 1..Len(rows)}

\* C4: every record with a resolvable timestamp is in exactly one window,
\* the one whose start is the truncation of the record's UTC instant to
\* the configured width; no window is empty and no window start occurs
\* twice; the snapshots yielded so far are those of the first windows, one
\* each; a consumed build has yielded exactly one snapshot per distinct
\* window start of its resolvable records; the three-record scenarios
\* (day 0, day 0, day 1 and day 0, day 0, day 2) yield exactly 2 snapshots
\* with a 1-day width.
C4_OneWindowPerRecord ==
    \A input \in {gens[g].input : g \in 1..Len(gens)} :
    \A rows \in {Resolvable(input)} :
    \A g \in {h \in 1..Len(gens) : gens[h].input = input} :
    \A w \in {gens[g].windows} :
        /\ gens[g].status = "suspended" =>
            /\ \A a \in 1..Len(w) : w[a].rows # <<>>
            /\ \A a, b \in 1..Len(w) : w[a].window_start = w[b].window_start => a = b
            /\ \A a \in 1..Len(w) : \A j \in 1..Len(w[a].rows) :
                  Truncate(w[a].rows[j].timestamp, time_window) = w[a].window_start
            /\ \A j \in 1..Len(rows) : \A a \in 1..Len(w) :
                  Count(w[a].rows, rows[j]) =
                      IF w[a].window_start = Truncate(rows[j].timestamp, time_window)
                      THEN Count(rows, rows[j]) ELSE 0
            /\ \A j \in 1..Len(rows) :
                  \E a \in 1..Len(w) : w[a].window_start = Truncate(rows[j].timestamp, time_window)
            /\ Len(gens[g].yielded) = gens[g].pos
            /\ \A k \in 1..gens[g].pos : gens[g].yielded[k].timestamp = w[k].window_start
        /\ gens[g].status = "done" =>
            /\ Len(gens[g].yielded) = Cardinality(WindowStarts(rows, time_window))
            /\ {gens[g].yielded[k].timestamp : k \in 1..Len(gens[g].yielded)}
                  = WindowStarts(rows, time_window)
            /\ (time_window = "1d" /\ gens[g].input \in Scenarios)
                  => Len(gens[g].yielded) = 2

\* the scenario with a gap (day 0, day 0, day 2) is consumed with a 1-day
\* width: two resolvable records share a window and one day has none
C4_Witness ==
    \E g \in 1..Len(gens) :
        /\ gens[g].status = "done"
        /\ time_window = "1d"
        /\ gens[g].input \in Orders(resources)
        /\ Len(Resolvable(gens[g].input)) = 3
        /\ Len(gens[g].yielded) = 2

\* the edge index lists of the snapshots a generator has yielded
EdgeLists(gen) == [k \in 1..Len(gen.yielded) |-> gen.yielded[k].edge_index_dict]

\* C5: when a build over some input has been consumed, no step of another
\* build over the same input changes node_mapping (so node_mapping after
\* the second build equals node_mapping after the first), and two consumed
\* builds over the same input have yielded identical edge index lists.
C5_SecondBuildRegistersNothing ==
    [][/\ \A g \in 1..Len(gens) :
            (/\ gens'[g] # gens[g]
             /\ \E h \in 1..Len(gens) :
                    /\ h # g
                    /\ gens[h].status = "done"
                    /\ gens[h].input = gens[g].input)
            => node_mapping' = node_mapping
       /\ \A g, h \in 1..Len(gens') :
            (/\ gens'[g].status = "done"
             /\ gens'[h].status = "done"
             /\ gens'[g].input = gens'[h].input)
            => EdgeLists(gens'[g]) = EdgeLists(gens'[h])]_vars

\* two builds over the same input are consumed, each over several windows
\* and with edges
C5_Witness ==
    /\ Len(gens) = 2
    /\ gens[1].input = gens[2].input
    /\ \A g \in 1..2 :
          /\ gens[g].status = "done"
          /\ Len(gens[g].yielded) >= 2
          /\ \E k \in 1..Len(gens[g].yielded) :
                DOMAIN gens[g].yielded[k].edge_index_dict # {}

\* a record with none of the seven timestamp fields
HasNoTimestamp(res) ==
    /\ \A f \in {"recordedDate", "effectiveDateTime", "issued", "authoredOn",
                 "birthDate", "date"} : res[f].k = "absent"
    /\ res.period.shape = "absent" \/ res.period.start.k = "absent"

\* a record whose selected timestamp value is a string that is no timestamp
HasMalformedTimestamp(res) ==
    /\ ~HasNoTimestamp(res)
    /\ TsSelect(res).v.k = "str"
    /\ ~FromIsoFormat(ReplaceZ(PadPrecision(TsSelect(res).v.s))).ok

IsDropped(res) == HasNoTimestamp(res) \/ HasMalformedTimestamp(res)

\* the input without its dropped records
Kept(input) == LET keep(r) == ~IsDropped(r) IN SelectSeq(input, keep)

\* (t, i) is the target of the reference obj of the field ref_field
IsTarget(obj, ref_field, t, i) ==
    /\ obj.shape = "map"
    /\ obj.reference.k = "str"
    /\ t = TgtType(obj.reference.s, ref_field)
    /\ i = TgtId(obj.reference.s)

\* the number of edges of an edge index dict, and of references in rows
EdgeCount(edges) ==
    LET keys == DOMAIN edges
        RECURSIVE sum(_)
        sum(K) == IF K = {} THEN 0
                  ELSE LET k == CHOOSE x \in K : TRUE
                       IN  Len(edges[k][1]) + sum(K \ {k})
    IN  sum(keys)

RefCount(rows) ==
    Cardinality({j \in 1..Len(rows) : rows[j].subject_ref.k # "null"})
    + Cardinality({j \in 1..Len(rows) : rows[j].encounter_ref.k # "null"})

C6_NoException ==
    \A g \in 1..Len(gens) : gens[g].status # "raised"

\* the precedence order of the timestamp fields
Precedence == <<"recordedDate", "effectiveDateTime", "issued", "authoredOn",
                "period.start", "birthDate", "date">>

\* the value a record holds for position i of the precedence order, Null
\* when it holds none
FieldValue(res, i) ==
    IF Precedence[i] = "period.start"
    THEN IF res.period.shape = "map" /\ res.period.start.k # "absent"
         THEN res.period.start ELSE Null
    ELSE IF res[Precedence[i]].k = "absent" THEN Null ELSE res[Precedence[i]]

\* the test that makes a field win: "non-null" (not None), or "truthy" (not
\* None and not the empty string)
Wins(v, test) ==
    IF test = "non-null" THEN v.k # "null"
    ELSE v.k # "null" /\ ~(v.k = "str" /\ v.s = <<>>)

\* the first position of the precedence order whose value wins, 0 if none
FirstWinner(res, test) ==
    IF \E i \in 1..Len(Precedence) : Wins(FieldValue(res, i), test)
    THEN CHOOSE i \in 1..Len(Precedence) :
            /\ Wins(FieldValue(res, i), test)
            /\ \A j \in 1..(i - 1) : ~Wins(FieldValue(res, j), test)
    ELSE 0

\* period is consulted before position i and is no mapping
PeriodInTheWay(res, i) ==
    /\ res.period.shape \in {"null", "scalar"}
    /\ \E j \in 1..(i - 1) : Precedence[j] = "period.start"

\* the references of the record can be read
Readable(res) ==
    res.subject.shape \in {"absent", "map"} /\ res.encounter.shape \in {"absent", "map"}

\* every finished build over a one-record input has placed its record by
\* the first field that wins the test: at the date of that field when the
\* value is a date, in no snapshot when it is a string that is no date;
\* fields behind the winner are not consulted
PlacedByFirst(test) ==
    \A g \in 1..Len(gens) : \A res \in {gens[g].input[1]} :
    \A i \in {FirstWinner(res, test)} :
        (/\ gens[g].status \in {"done", "raised"}
         /\ i # 0
         /\ ~PeriodInTheWay(res, i)
         /\ FieldValue(res, i).k = "str")
        => IF FieldValue(res, i).s = T_good(i)
           THEN Readable(res) =>
                  /\ gens[g].status = "done"
                  /\ Len(gens[g].yielded) = 1
                  /\ gens[g].yielded[1].timestamp = <<DaysFromCivil(2024, 1, i), 0>>
           ELSE FieldValue(res, i).s # T_overflow =>
                  /\ gens[g].status = "done"
                  /\ gens[g].yielded = <<>>

LastSegment(x) ==
    SubSeq(x, LastPos(SubSeq(x, 1, LastPos(x, "/") - 1), "/") + 1, LastPos(x, "/") - 1)

BeforeLastSlash(x) == SubSeq(x, 1, LastPos(x, "/") - 1)

\* the snapshot of a one-record build stores the edge of each reference
\* field that holds x, and no other, under (source type, relation, typ)
StoredUnder(snap, res, typ) ==
    /\ \E key \in {<<res.resourceType, "refers_to", typ>>} :
          /\ key \in DOMAIN snap.edge_index_dict
          /\ Len(snap.edge_index_dict[key][1]) = 1
          /\ Len(snap.edge_index_dict[key][2]) = 1
    /\ res.encounter.shape = "map" =>
          \E key \in {<<res.resourceType, "occurs_in", typ>>} :
              /\ key \in DOMAIN snap.edge_index_dict
              /\ Len(snap.edge_index_dict[key][1]) = 1
    /\ \A key \in DOMAIN snap.edge_index_dict : key[3] = typ

\* C9 (as stated): for a reference string that contains "/" and does not
\* start with "urn:", the target type is the whole text before the final
\* "/", and the edge is stored under (source type, relation, that type).
C9_TypeIsTextBeforeSlash ==
    \A g \in 1..Len(gens) : \A res \in {gens[g].input[1]} :
        (/\ Len(gens[g].yielded) >= 1
         /\ LastPos(res.subject.reference.s, "/") # 0
         /\ ~StartsWith(res.subject.reference.s, S_urn))
        => StoredUnder(gens[g].yielded[1], res, BeforeLastSlash(res.subject.reference.s))

\* C9 (amended): for a reference string that contains "/" and does not
\* start with "urn:", the target type is the segment in front of the final
\* "/", that is the text between the last two "/" or, with one "/", the
\* text before it ("Patient" for "Patient/42"), and the edge is stored
\* under (source type, relation, that type).
C9_TypeIsLastSegment ==
    \A g \in 1..Len(gens) : \A res \in {gens[g].input[1]} :
        (/\ Len(gens[g].yielded) >= 1
         /\ LastPos(res.subject.reference.s, "/") # 0
         /\ ~StartsWith(res.subject.reference.s, S_urn))
        => StoredUnder(gens[g].yielded[1], res, LastSegment(res.subject.reference.s))

\* a snapshot is yielded for a record whose subject and encounter hold a
\* reference with more than one "/"
C9_Witness ==
    \E g \in 1..Len(gens) : \E res \in {gens[g].input[1]} :
        /\ Len(gens[g].yielded) >= 1
        /\ res.encounter.shape = "map"
        /\ ~StartsWith(res.subject.reference.s, S_urn)
        /\ LastPos(res.subject.reference.s, "/") # 0
        /\ LastPos(BeforeLastSlash(res.subject.reference.s), "/") # 0

\* the target id by the three cases, decided on how x starts
IdByPrefix(x) ==
    IF StartsWith(x, S_urn) THEN SubSeq(x, LastPos(x, ":") + 1, Len(x))
    ELSE IF LastPos(x, "/") # 0 THEN SubSeq(x, LastPos(x, "/") + 1, Len(x))
    ELSE x

\* C10: the target id of a reference string is the text after the final
\* ":" if the string starts with "urn:", else the text after the final "/"
\* if it contains "/", else the whole string; a string that does not start
\* with "urn:" is not split on ":".  Here: the only id registered for a
\* type other than the record's own is that id.
C10_IdByPrefix ==
    \A g \in 1..Len(gens) : \A res \in {gens[g].input[1]} :
        Len(gens[g].yielded) >= 1 =>
            \A t \in DOMAIN node_mapping \ {res.resourceType} :
                DOMAIN node_mapping[t] = {IdByPrefix(res.subject.reference.s)}

\* the number of edge pairs stored under the relation rel
EdgeCountRel(edges, rel) ==
    LET RECURSIVE sum(_)
        sum(K) == IF K = {} THEN 0
                  ELSE LET k == CHOOSE x \in K : TRUE
                       IN  Len(edges[k][1]) + sum(K \ {k})
    IN  sum({key \in DOMAIN edges : key[2] = rel})

\* the rows that hold a reference for the field, and whether one of them
\* holds a reference that cannot be parsed
FieldRefs(rows, field) == {j \in 1..Len(rows) : rows[j][field \o "_ref"].k # "null"}

FieldBroken(rows, field) == \E j \in FieldRefs(rows, field) : rows[j][field \o "_ref"].k # "str"

\* C11: when the processing of a reference field fails in a window (a
\* reference that is no string), that field contributes no edge to the
\* window's snapshot, the other field's edges are all there (one per
\* reference, source and target lists of equal length), no exception
\* leaves the build and the snapshot of every window is yielded.
C11_FailedFieldIsolated ==
    \A input \in {gens[g].input : g \in 1..Len(gens)} :
    \A p \in {Prepare(input, time_window)} :
    \A g \in {h \in 1..Len(gens) : gens[h].input = input} :
        /\ gens[g].status # "raised"
        /\ Len(gens[g].yielded) <= Len(p.windows)
        /\ gens[g].status = "done" => Len(gens[g].yielded) = Len(p.windows)
        /\ \A k \in 1..Len(gens[g].yielded) :
           \A c \in {<<"subject", "refers_to">>, <<"encounter", "occurs_in">>} :
           \A edges \in {gens[g].yielded[k].edge_index_dict} :
              /\ \A key \in DOMAIN edges : Len(edges[key][1]) = Len(edges[key][2])
              /\ IF FieldBroken(p.windows[k].rows, c[1])
                 THEN \A key \in DOMAIN edges : key[2] # c[2]
                 ELSE EdgeCountRel(edges, c[2])
                          = Cardinality(FieldRefs(p.windows[k].rows, c[1]))

\* a snapshot is yielded for a window in which the subject field fails
\* and the encounter field has an edge
C11_Witness ==
    \E g \in 1..Len(gens) : \E k \in 1..Len(gens[g].yielded) :
    \E p \in {Prepare(gens[g].input, time_window)} :
        /\ FieldBroken(p.windows[k].rows, "subject")
        /\ EdgeCountRel(gens[g].yielded[k].edge_index_dict, "occurs_in") >= 1
        /\ EdgeCountRel(gens[g].yielded[k].edge_index_dict, "refers_to") = 0

\* the dict snapshots a generator has yielded
IsDict(snap) == snap.repr = "dict"

\* C12: a snapshot in the plain-mapping representation is yielded with a
\* num_nodes entry for every type of node_mapping as it is at that moment,
\* each the number of ids registered for the type; along the snapshots of
\* a build no type disappears from num_nodes and no count decreases.
C12_NumNodesCumulative ==
    [][\A g \in 1..Len(gens) :
          /\ (Len(gens'[g].yielded) > Len(gens[g].yielded)
              /\ IsDict(gens'[g].yielded[Len(gens'[g].yielded)]))
             => \A nn \in {gens'[g].yielded[Len(gens'[g].yielded)].num_nodes} :
                   /\ DOMAIN nn = DOMAIN node_mapping'
                   /\ \A t \in DOMAIN nn : nn[t] = Cardinality(DOMAIN node_mapping'[t])
          /\ \A j, k \in 1..Len(gens'[g].yielded) :
                (j < k /\ IsDict(gens'[g].yielded[j]) /\ IsDict(gens'[g].yielded[k]))
                => \A t \in DOMAIN gens'[g].yielded[j].num_nodes :
                      /\ t \in DOMAIN gens'[g].yielded[k].num_nodes
                      /\ gens'[g].yielded[j].num_nodes[t]
                            <= gens'[g].yielded[k].num_nodes[t]]_vars

\* the second build yields a plain-mapping snapshot for a window of
\* patients only whose num_nodes counts a type of the earlier build's
\* records and a type known only as a reference target
C12_Witness ==
    /\ Len(gens) = 2
    /\ gens[1].status = "done"
    /\ \E k \in 1..Len(gens[2].yielded) :
       \E rows \in {Prepare(gens[2].input, time_window).windows[k].rows} :
          /\ IsDict(gens[2].yielded[k])
          /\ \A j \in 1..Len(rows) : rows[j].resourceType = S_Patient
          /\ S_Condition \in DOMAIN gens[2].yielded[k].num_nodes
          /\ S_Encounter \in DOMAIN gens[2].yielded[k].num_nodes
          /\ \A g \in 1..2 : \A j \in 1..Len(gens[g].input) :
                gens[g].input[j].resourceType # S_Encounter

\* C13: a snapshot in the tensor-graph representation is yielded with the
\* per-type node counts of node_mapping as it is at that moment (the
\* counts the plain mapping reports), for every type of the window's
\* records at least.
C13_TensorCarriesCounts ==
    [][\A g \in 1..Len(gens) :
          (/\ Len(gens'[g].yielded) > Len(gens[g].yielded)
           /\ gens'[g].yielded[Len(gens'[g].yielded)].repr = "HeteroData")
          => \A nn \in {gens'[g].yielded[Len(gens'[g].yielded)].num_nodes} :
                /\ DOMAIN nn # {}
                /\ \A t \in DOMAIN nn : nn[t] = Cardinality(DOMAIN node_mapping'[t])]_vars

\* the reference field of a relation
FieldOf(rel) == IF rel = "refers_to" THEN "subject" ELSE "encounter"

\* (s, t) under key joins the record of a row of rows to the target of
\* its reference, by the indices node_mapping holds for them
JoinsRowToTarget(rows, key, s, t) ==
    \E j \in 1..Len(rows) : \E x \in {rows[j][FieldOf(key[2]) \o "_ref"]} :
        /\ rows[j].resourceType = key[1]
        /\ x.k = "str"
        /\ TgtType(x.s, FieldOf(key[2])) = key[3]
        /\ key[1] \in DOMAIN node_mapping
        /\ rows[j].id \in DOMAIN node_mapping[key[1]]
        /\ node_mapping[key[1]][rows[j].id] = s
        /\ key[3] \in DOMAIN node_mapping
        /\ TgtId(x.s) \in DOMAIN node_mapping[key[3]]
        /\ node_mapping[key[3]][TgtId(x.s)] = t

\* C14: every edge pair (s, t) of a yielded snapshot under a key (source
\* type, relation, target type) consists of the index node_mapping holds
\* for the id of an event of the window and the index it holds for the
\* parsed target id of that event's reference; in the plain mapping both
\* are below the snapshot's num_nodes of their type; the two index lists
\* of a key have the same length.
C14_EdgeEndsRegistered ==
    \A input \in {gens[g].input : g \in 1..Len(gens)} :
    \A p \in {Prepare(input, time_window)} :
    \A g \in {h \in 1..Len(gens) : gens[h].input = input} :
    \A k \in 1..Len(gens[g].yielded) :
    \A snap \in {gens[g].yielded[k]} :
    \A key \in DOMAIN snap.edge_index_dict :
    \A e \in {snap.edge_index_dict[key]} :
        /\ Len(e[1]) = Len(e[2])
        /\ \A n \in 1..Len(e[1]) :
              /\ JoinsRowToTarget(p.windows[k].rows, key, e[1][n], e[2][n])
              /\ IsDict(snap) =>
                    /\ e[1][n] < snap.num_nodes[key[1]]
                    /\ e[2][n] < snap.num_nodes[key[3]]

\* a plain-mapping snapshot holds an edge to a target that is no record
\* of the input, with an index other than 0 and other than the source's
C14_Witness ==
    \E g \in 1..Len(gens) : \E k \in 1..Len(gens[g].yielded) :
    \E snap \in {gens[g].yielded[k]} :
        /\ IsDict(snap)
        /\ \E key \in DOMAIN snap.edge_index_dict :
           \E n \in 1..Len(snap.edge_index_dict[key][2]) :
              /\ snap.edge_index_dict[key][2][n] >= 1
              /\ snap.edge_index_dict[key][2][n] # snap.edge_index_dict[key][1][n]
              /\ \A j \in 1..Len(gens[g].input) :
                    \/ gens[g].input[j].resourceType # key[3]
                    \/ node_mapping[key[3]][gens[g].input[j].id]
                          # snap.edge_index_dict[key][2][n]

\* some build of the builder has yielded n snapshots
Constructed(n) == \E g \in 1..Len(gens) : Len(gens[g].yielded) >= n

\* C15: without torch the builder has logged the fallback warning exactly
\* once as soon as it has constructed a snapshot, and not before, however
\* many snapshots and builds follow; with torch it logs none; every
\* snapshot of the builder has the same representation.
C15_WarnedOnce ==
    /\ warnings = IF ~torch_available /\ Constructed(1) THEN 1 ELSE 0
    /\ \A g \in 1..Len(gens) : \A k \in 1..Len(gens[g].yielded) :
          gens[g].yielded[k].repr = IF torch_available THEN "HeteroData" ELSE "dict"

\* without torch two builds are consumed, each over several windows
C15_Witness ==
    /\ ~torch_available
    /\ Len(gens) = 2
    /\ \A g \in 1..2 : gens[g].status = "done" /\ Len(gens[g].yielded) >= 2
    /\ warnings = 1

\* C16: whenever summary has printed for the plain-mapping snapshots of a
\* build, the line of every snapshot reports as edge count the number of
\* edge pairs of the snapshot's edge-relation map and as node count the sum
\* of its per-type node counts, and the totals behind the two averages are
\* the sums of those per-snapshot values.
C16_SummaryCountsEdges ==
    printed.of # 0 =>
        \A snaps \in {gens[printed.of].yielded} :
            /\ printed.out.count = Len(snaps)
            /\ \A k \in 1..Len(snaps) :
                   /\ printed.out.lines[k].edges = EdgeCount(snaps[k].edge_index_dict)
                   /\ printed.out.lines[k].nodes = SumValues(snaps[k].num_nodes)
            /\ printed.out.total_edges = Total(printed.out.lines, "edges", Len(snaps))
            /\ printed.out.total_nodes = Total(printed.out.lines, "nodes", Len(snaps))

\* what does hold: every line reports 0 edges and the right node count
C16_SummaryReportsNoEdges ==
    printed.of # 0 =>
        \A snaps \in {gens[printed.of].yielded} :
            /\ printed.out.count = Len(snaps)
            /\ printed.out.total_edges = 0
            /\ \A k \in 1..Len(snaps) :
                   /\ printed.out.lines[k].edges = 0
                   /\ printed.out.lines[k].nodes = SumValues(snaps[k].num_nodes)

\* the (type, id) pairs a registry holds
Identities(m) == UNION {{<<t, i>> : i \in DOMAIN m[t]} : t \in DOMAIN m}

\* the (type, id) pairs of the events of a window: the own id of every
\* row and the target of every reference
Contributed(rows) ==
    {<<rows[j].resourceType, rows[j].id>> : j \in 1..Len(rows)}
    \cup UNION {{<<TgtType(rows[j][f \o "_ref"].s, f), TgtId(rows[j][f \o "_ref"].s)>> :
                   j \in {h \in 1..Len(rows) : rows[h][f \o "_ref"].k = "str"}} :
               f \in {"subject", "encounter"}}

\* the pairs of the first k windows
RECURSIVE ContributedUpTo(_, _)
ContributedUpTo(windows, k) ==
    IF k = 0 THEN {}
    ELSE Contributed(windows[k].rows) \cup ContributedUpTo(windows, k - 1)

\* C17: a call of build_snapshots leaves node_mapping as it is; a step
\* that hands the k-th snapshot of a sequence to the consumer adds to
\* node_mapping exactly the identities (own ids and reference targets) of
\* the events of the k-th window, and no other step changes node_mapping,
\* so that after k snapshots of the first build of a builder node_mapping
\* holds exactly the identities of the first k windows; the snapshots a
\* sequence has yielded only grow, one at a time; a sequence that is
\* exhausted (or was left by an exception) never changes again.
C17_LazyForwardOnly ==
    [][/\ Len(gens') > Len(gens) => node_mapping' = node_mapping
       /\ \A g \in 1..Len(gens) : \A n \in {Len(gens[g].yielded)} :
             /\ gens[g].status \in {"done", "raised"} => gens'[g] = gens[g]
             /\ Len(gens'[g].yielded) \in {n, n + 1}
             /\ SubSeq(gens'[g].yielded, 1, n) = gens[g].yielded
             /\ Len(gens'[g].yielded) = n + 1 =>
                    Identities(node_mapping') =
                        Identities(node_mapping)
                        \cup Contributed(gens'[g].windows[n + 1].rows)
       /\ (\A g \in 1..Len(gens) : Len(gens'[g].yielded) = Len(gens[g].yielded))
              => node_mapping' = node_mapping
       /\ Len(gens') = 1 =>
              \A p \in {Prepare(gens'[1].input, time_window)} :
                  p.ok => Identities(node_mapping') =
                              ContributedUpTo(p.windows, Len(gens'[1].yielded))]_vars

\* one snapshot of a sequence over two windows has been pulled and an event
\* of the second window is not in node_mapping
C17_Witness ==
    \E g \in 1..Len(gens) :
        /\ gens[g].status = "suspended"
        /\ Len(gens[g].yielded) = 1
        /\ Len(gens[g].windows) = 2
        /\ \E j \in 1..Len(gens[g].windows[2].rows) :
               <<gens[g].windows[2].rows[j].resourceType, gens[g].windows[2].rows[j].id>>
                   \notin Identities(node_mapping)

\* the ids of type t that m2 holds and m does not
NewIds(m, m2, t) ==
    {a \in DOMAIN m2[t] : t \notin DOMAIN m \/ a \notin DOMAIN m[t]}

\* the rows of a window whose record is (t, a)
OwnAt(rows, t, a) ==
    {j \in 1..Len(rows) : rows[j].resourceType = t /\ rows[j].id = a}

\* the rows of a window whose reference in field f has the target (t, a)
TargetAt(rows, f, t, a) ==
    {j \in 1..Len(rows) : /\ rows[j][f \o "_ref"].k = "str"
                           /\ TgtType(rows[j][f \o "_ref"].s, f) = t
                           /\ TgtId(rows[j][f \o "_ref"].s) = a}

Min(S) == CHOOSE x \in S : \A y \in S : x <= y

\* the position in the sorted window of the first event that names (t, a)
FirstEvent(rows, t, a) ==
    Min(OwnAt(rows, t, a) \cup TargetAt(rows, "subject", t, a)
                          \cup TargetAt(rows, "encounter", t, a))

\* the place of (t, a) in the order own ids of all rows, then subject
\* targets of all rows, then encounter targets of all rows
Rank(rows, t, a) ==
    Min(OwnAt(rows, t, a)
        \cup {Len(rows) + j : j \in TargetAt(rows, "subject", t, a)}
        \cup {2 * Len(rows) + j : j \in TargetAt(rows, "encounter", t, a)})

\* C18 (as stated): when a window is constructed, every id registered
\* before it has a smaller index than every id of the type the window
\* adds, and of two ids the window adds the one whose first event (own id
\* or reference target) is earlier in the sorted window has the smaller
\* index.
C18_FirstEventOrder ==
    [][\A g \in 1..Len(gens) :
         Len(gens'[g].yielded) = Len(gens[g].yielded) + 1 =>
           \A rows \in {gens'[g].windows[Len(gens'[g].yielded)].rows} :
           \A t \in DOMAIN node_mapping' :
           \A a \in NewIds(node_mapping, node_mapping', t) :
               /\ \A b \in DOMAIN node_mapping'[t] \ NewIds(node_mapping, node_mapping', t) :
                      node_mapping'[t][b] < node_mapping'[t][a]
               /\ \A b \in NewIds(node_mapping, node_mapping', t) :
                      FirstEvent(rows, t, a) < FirstEvent(rows, t, b)
                          => node_mapping'[t][a] < node_mapping'[t][b]]_vars

\* C18 (amended): when a window is constructed, every id registered before
\* it has a smaller index than every id of the type the window adds, and
\* the ids the window adds are indexed in the order: own ids of the
\* window's events in sorted order, then the targets of the subject
\* references in sorted order, then the targets of the encounter
\* references in sorted order.
C18_OwnIdsThenTargets ==
    [][\A g \in 1..Len(gens) :
         Len(gens'[g].yielded) = Len(gens[g].yielded) + 1 =>
           \A rows \in {gens'[g].windows[Len(gens'[g].yielded)].rows} :
           \A t \in DOMAIN node_mapping' :
           \A a \in NewIds(node_mapping, node_mapping', t) :
               /\ \A b \in DOMAIN node_mapping'[t] \ NewIds(node_mapping, node_mapping', t) :
                      node_mapping'[t][b] < node_mapping'[t][a]
               /\ \A b \in NewIds(node_mapping, node_mapping', t) :
                      Rank(rows, t, a) < Rank(rows, t, b)
                          => node_mapping'[t][a] < node_mapping'[t][b]]_vars

\* a window has been constructed in which a reference named patient x at
\* an earlier event than the record of patient p, and p has the smaller
\* index
C18_Witness ==
    \E g \in 1..Len(gens) : \E k \in 1..Len(gens[g].yielded) :
        /\ gens[g].status = "suspended"
        /\ k = Len(gens[g].yielded)
        /\ \E rows \in {gens[g].windows[k].rows} :
               /\ OwnAt(rows, S_Patient, <<"p">>) # {}
               /\ TargetAt(rows, "subject", S_Patient, <<"x">>) # {}
               /\ FirstEvent(rows, S_Patient, <<"x">>) < FirstEvent(rows, S_Patient, <<"p">>)
               /\ node_mapping[S_Patient][<<"p">>] < node_mapping[S_Patient][<<"x">>]

\* the events of a window, in order, whose reference in the field of the
\* relation of key is a string and that have the source and target type of
\* key
Referring(rows, key) ==
    LET f == FieldOf(key[2])
        has(r) == /\ r.resourceType = key[1]
                  /\ r[f \o "_ref"].k = "str"
                  /\ TgtType(r[f \o "_ref"].s, f) = key[3]
    IN  SelectSeq(rows, has)

\* the keys (source type, relation, target type) of the references of a
\* window
KeysOf(rows) ==
    UNION {{<<rows[j].resourceType, rel, TgtType(rows[j][FieldOf(rel) \o "_ref"].s, FieldOf(rel))>> :
               j \in {h \in 1..Len(rows) : rows[h][FieldOf(rel) \o "_ref"].k = "str"}} :
           rel \in {"refers_to", "occurs_in"}}

\* C19: the edge-relation map of the snapshot of a window has exactly the
\* keys of the references of the window's events, and under each key one
\* pair per event of the window with such a reference, in the order of the
\* events and with repetitions kept: the pair of the indices of the event
\* and of its target. Nothing of another window or of another build is in
\* it.
C19_EdgesAreWindowLocal ==
    \A input \in {gens[g].input : g \in 1..Len(gens)} :
    \A p \in {Prepare(input, time_window)} :
    \A g \in {h \in 1..Len(gens) : gens[h].input = input} :
    \A k \in 1..Len(gens[g].yielded) :
    \A snap \in {gens[g].yielded[k]} :
        /\ DOMAIN snap.edge_index_dict = KeysOf(p.windows[k].rows)
        /\ \A key \in DOMAIN snap.edge_index_dict :
           \A sel \in {Referring(p.windows[k].rows, key)} :
               /\ snap.edge_index_dict[key][1] =
                      [n \in 1..Len(sel) |-> node_mapping[key[1]][sel[n].id]]
               /\ snap.edge_index_dict[key][2] =
                      [n \in 1..Len(sel) |->
                          node_mapping[key[3]][TgtId(sel[n][FieldOf(key[2]) \o "_ref"].s)]]

\* a build has yielded two snapshots that both hold edges, under different
\* keys: the edges of the first window are not in the second snapshot
C19_Witness ==
    \E g \in 1..Len(gens) :
        /\ Len(gens[g].yielded) = 2
        /\ EdgeCount(gens[g].yielded[1].edge_index_dict) >= 1
        /\ EdgeCount(gens[g].yielded[2].edge_index_dict) >= 1
        /\ DOMAIN gens[g].yielded[1].edge_index_dict
               # DOMAIN gens[g].yielded[2].edge_index_dict

\* node_mapping after the windows from k on have been constructed on m
RECURSIVE ConstructFrom(_, _, _)
ConstructFrom(m, windows, k) ==
    IF k > Len(windows) THEN m
    ELSE CHOOSE out \in
             {ConstructFrom(r.m, windows, k + 1) :
                 r \in {construct_hetero_data(m, TRUE, TRUE, windows[k].rows,
                                              windows[k].window_start)}} : TRUE

\* node_mapping after a sequence over input has been consumed on m
Consumed(m, input) ==
    CHOOSE out \in {IF p.ok THEN ConstructFrom(m, p.windows, 1) ELSE m :
                       p \in {Prepare(input, time_window)}} : TRUE

\* C20: whatever the order in which the sequences of a builder are
\* advanced, after every step the indices of every type are 0..k-1 without
\* repetition, every pair that had an index keeps it, and when the
\* sequences are consumed node_mapping holds the same (type, id) pairs as
\* after consuming them one after the other.
C20_InterleavingKeepsRegistry ==
    [][/\ \A t \in DOMAIN node_mapping' :
             /\ Indices(node_mapping', t) = 0..(Cardinality(DOMAIN node_mapping'[t]) - 1)
             /\ \A i, j \in DOMAIN node_mapping'[t] :
                   node_mapping'[t][i] = node_mapping'[t][j] => i = j
       /\ \A t \in DOMAIN node_mapping : \A i \in DOMAIN node_mapping[t] :
             /\ t \in DOMAIN node_mapping'
             /\ i \in DOMAIN node_mapping'[t]
             /\ node_mapping'[t][i] = node_mapping[t][i]
       /\ (/\ Len(gens') = 2
           /\ gens'[1].status = "done"
           /\ gens'[2].status = "done")
              => Identities(node_mapping') =
                     Identities(Consumed(Consumed(EmptyMap, gens'[1].input),
                                         gens'[2].input))]_vars

\* two sequences over different inputs were advanced in an order that gave
\* a pair another index than consuming the first sequence and then the
\* second gives it
C20_Witness ==
    /\ Len(gens) = 2
    /\ gens[1].status = "done"
    /\ gens[2].status = "done"
    /\ gens[1].input # gens[2].input
    /\ \E seq \in {Consumed(Consumed(EmptyMap, gens[1].input), gens[2].input)} :
       \E t \in DOMAIN node_mapping : \E i \in DOMAIN node_mapping[t] :
           /\ t \in DOMAIN seq
           /\ i \in DOMAIN seq[t]
           /\ node_mapping[t][i] # seq[t][i]

\* the same two sequences consumed one after the other
C20_Sequential ==
    /\ Len(gens) = 2
    /\ gens[1].status = "done"
    /\ gens[2].status = "done"
    /\ gens[1].input # gens[2].input
    /\ node_mapping = Consumed(Consumed(EmptyMap, gens[1].input), gens[2].input)
    /\ \E t \in DOMAIN node_mapping : Cardinality(DOMAIN node_mapping[t]) >= 2

====
